---- MODULE Spec2Model ----
(***************************************************************************)
(* The Spaces reporting path of turborepo-api-client (spaces.rs): the      *)
(* request assembler create_request_builder and the three reporting        *)
(* operations create_space_run, create_task_summary and finish_space_run,  *)
(* with the preflight negotiator and the retrying transport as             *)
(* collaborators.                                                          *)
(*                                                                         *)
(* Option<T> is a sequence: <<>> is None, <<x>> is Some(x).                *)
(***************************************************************************)
EXTENDS Integers, Sequences, FiniteSets, TLC

\* ------------------------------------------------------------ bounds

\* Attempts the retrying transport makes before it returns its last outcome.
MaxAttempts == 2

\* The operations in flight on the client.
Slots == {1}

\* ------------------------------------------------------------ inputs

NoneOpt == <<>>

Some(x) == <<x>>

BaseUrls == {"https://vercel.com/api"}

Tokens == {"t1", "t2"}

TeamIds == {"", "team_1"}

TeamSlugs == {NoneOpt, Some("my-team")}

SpaceIds == {"space1", "space2"}

RunIds == {"run1"}

\* i64 end_time and i32 exit_code arguments of finish_space_run.
EndTimes == {-5, 1700}

ExitCodes == {-1, 0, 1}

\* What turborepo_ci::Vendor::get_constant() finds in the environment.
CiVendors == {NoneOpt, Some("VERCEL")}

\* Where a preflight response may redirect the real request.
RedirectLocations == {"https://canonical.example/api"}

APIAuths == [token : Tokens, team_id : TeamIds, team_slug : TeamSlugs]

\* ------------------------------------------------------------ payloads

\* #[serde(rename_all = "lowercase")] on RunStatus.
RunStatus_serialize(status) ==
    CASE status = "Running" -> "running"
      [] status = "Completed" -> "completed"

\* #[serde(rename_all = "UPPERCASE")] on SpaceRunType.
SpaceRunType_serialize(ty) ==
    CASE ty = "Turbo" -> "TURBO"

\* CreateSpaceRunPayload::new; start_time is already timestamp_millis().
CreateSpaceRunPayload_new(start_time, command, root, branch, sha, version, user, vendor) ==
    [start_time |-> start_time,
     status |-> "Running",
     command |-> command,
     package_inference_root |-> IF root = NoneOpt THEN "" ELSE root[1],
     ty |-> "Turbo",
     run_context |-> IF vendor = NoneOpt THEN "LOCAL" ELSE vendor[1],
     git_branch |-> branch,
     git_sha |-> sha,
     user |-> user,
     client |-> [id |-> "turbo", name |-> "Turbo", version |-> version]]

\* Serialize for CreateSpaceRunPayload: camelCase with the explicit renames.
CreateSpaceRunPayload_json(p) ==
    [startTime |-> p.start_time,
     status |-> RunStatus_serialize(p.status),
     type |-> SpaceRunType_serialize(p.ty),
     command |-> p.command,
     repositoryPath |-> p.package_inference_root,
     context |-> p.run_context,
     gitBranch |-> p.git_branch,
     gitSha |-> p.git_sha,
     originationUser |-> p.user,
     client |-> p.client]

\* Serialize for SpaceTaskSummary: no rename, field names as declared.
SpaceTaskSummary_json(t) == t

\* Mutant: a negative end_time is raised to 0.
FinishSpaceRunPayload_new_clamped(end_time, exit_code) ==
    [status |-> "Completed",
     end_time |-> IF end_time < 0 THEN 0 ELSE end_time,
     exit_code |-> exit_code]

\* Mutant: the status follows the exit code.
FinishSpaceRunPayload_new_by_exit_code(end_time, exit_code) ==
    [status |-> IF exit_code >= 0 THEN "Completed" ELSE "Running",
     end_time |-> end_time, exit_code |-> exit_code]

FinishSpaceRunPayload_new(end_time, exit_code) ==
    [status |-> "Completed", end_time |-> end_time, exit_code |-> exit_code]

\* Serialize for FinishSpaceRunPayload: camelCase.
FinishSpaceRunPayload_json(p) ==
    [status |-> RunStatus_serialize(p.status),
     endTime |-> p.end_time,
     exitCode |-> p.exit_code]

\* DateTime<Local>::timestamp_millis() of the run's start, as the caller has it:
\* an i64, negative for an instant before the epoch.
StartTimes == {-1, 1000}

\* The task summaries a caller hands in; start_time and end_time are i64 fields
\* the caller fills in.
TaskSummary(start_time, end_time) ==
    [key |-> "web#build", name |-> "build", workspace |-> "web", hash |-> "abc",
     start_time |-> start_time, end_time |-> end_time,
     cache |-> [status |-> "MISS", source |-> NoneOpt, time_saved |-> 0],
     exit_code |-> 0, dependencies |-> <<>>, dependents |-> <<>>, logs |-> ""]

TaskSummaries == {TaskSummary(1000, 1200), TaskSummary(-7, 1200)}

\* ------------------------------------------------------------ HTTP

\* Method::as_str.
Method_as_str(method) ==
    CASE method = "POST" -> "POST"
      [] method = "PATCH" -> "PATCH"

\* APIClient::make_url: the endpoint appended to the client's base URL.
make_url(base_url, endpoint) == base_url \o endpoint

\* format!("Bearer {}", token)
Bearer(token) == "Bearer " \o token

\* RequestBuilder::header appends one header.
header(rb, name, value) == [rb EXCEPT !.headers = Append(@, <<name, value>>)]

\* RequestBuilder::query appends one query pair.
query(rb, key, value) == [rb EXCEPT !.query = Append(@, <<key, value>>)]

\* Client::request(method, url)
request(method, url) ==
    [method |-> method, url |-> url, headers |-> <<>>, query |-> <<>>, body |-> NoneOpt]

HeaderValues(rb, name) ==
    {rb.headers[i][2] : i \in {j \in DOMAIN rb.headers : rb.headers[j][1] = name}}

HasHeader(rb, name) == HeaderValues(rb, name) # {}

\* RequestBuilder::json sets the body, and Content-Type: application/json when
\* the builder has no Content-Type yet.
json(rb, body) ==
    LET typed == IF HasHeader(rb, "Content-Type") THEN rb
                 ELSE header(rb, "Content-Type", "application/json")
    IN  [typed EXCEPT !.body = Some(body)]

QueryValues(rb, key) ==
    {rb.query[i][2] : i \in {j \in DOMAIN rb.query : rb.query[j][1] = key}}

HasQuery(rb, key) == QueryValues(rb, key) # {}

\* APIClient::add_team_params: team id when non-empty, then team slug when present.
add_team_params(rb, team_id, team_slug) ==
    LET withId == IF team_id # "" THEN query(rb, "teamId", team_id) ELSE rb
    IN  IF team_slug # NoneOpt THEN query(withId, "slug", team_slug[1]) ELSE withId

\* The probe do_preflight is asked to send: an OPTIONS request to the URL that
\* declares the real request's method and header names.
preflight_request(token, url, method, headers) ==
    [token |-> token, url |-> url, method |-> method, headers |-> headers]

\* What do_preflight may answer for a probe to url: a failure, or a verdict.
PreflightVerdicts(url) ==
    [allow_authorization_header : BOOLEAN, location : {url} \cup RedirectLocations]

\* Mutant: the probe goes out whether or not the client uses preflight.
create_request_builder_probe_always(client, url, api_auth, method) ==
    Some(preflight_request(api_auth.token, make_url(client.base_url, url),
                           Method_as_str(method), "Authorization, User-Agent"))

\* create_request_builder up to its first suspension: the URL and, with
\* use_preflight, the probe it issues (Some) or none.
create_request_builder_probe(client, url, api_auth, method) ==
    IF client.use_preflight
    THEN Some(preflight_request(api_auth.token, make_url(client.base_url, url),
                                Method_as_str(method), "Authorization, User-Agent"))
    ELSE NoneOpt

\* Mutant: the verdict's location is dropped, the request keeps the original URL.
create_request_builder_target_keeps_url(client, url, preflight) ==
    IF client.use_preflight
    THEN [allow_auth |-> preflight[1].allow_authorization_header,
          url |-> make_url(client.base_url, url)]
    ELSE [allow_auth |-> TRUE, url |-> make_url(client.base_url, url)]

\* create_request_builder, lines 133-149: the URL and the authorization decision
\* the real request is built from. preflight is None when use_preflight is off
\* (do_preflight is not called), Some(response) when do_preflight returned Ok.
create_request_builder_target(client, url, preflight) ==
    IF client.use_preflight
    THEN [allow_auth |-> preflight[1].allow_authorization_header,
          url |-> preflight[1].location]
    ELSE [allow_auth |-> TRUE, url |-> make_url(client.base_url, url)]

\* Mutant: the Authorization header is attached whatever the verdict allows.
create_request_builder_auth_always(rb, allow_auth, token) ==
    header(rb, "Authorization", Bearer(token))

\* create_request_builder, lines 156-158: the Authorization header.
create_request_builder_auth(rb, allow_auth, token) ==
    IF allow_auth THEN header(rb, "Authorization", Bearer(token)) ELSE rb

\* Mutant: without a detected vendor the CI header is sent with a placeholder.
create_request_builder_ci_placeholder(rb, vendor) ==
    header(rb, "x-artifact-client-ci", IF vendor # NoneOpt THEN vendor[1] ELSE "unknown")

\* create_request_builder, lines 162-164: the CI header.
create_request_builder_ci(rb, vendor) ==
    IF vendor # NoneOpt THEN header(rb, "x-artifact-client-ci", vendor[1]) ELSE rb

\* Mutant: only a POST request is given the Content-Type header.
create_request_builder_request_typed_post(method, url) ==
    IF method = "POST"
    THEN header(request(method, url), "Content-Type", "application/json")
    ELSE request(method, url)

\* create_request_builder, lines 151-154: the request with its Content-Type.
create_request_builder_request(method, url) ==
    header(request(method, url), "Content-Type", "application/json")

\* Mutant: the team parameters are left off the request.
create_request_builder_finish_no_team(client, url, api_auth, method, preflight, vendor) ==
    LET target == create_request_builder_target(client, url, preflight)
        rb0 == create_request_builder_request(method, target.url)
        rb1 == create_request_builder_auth(rb0, target.allow_auth, api_auth.token)
    IN  create_request_builder_ci(rb1, vendor)

\* Mutant: the team parameters go with the Authorization header, both left off
\* when the verdict disallows the header.
create_request_builder_finish_team_if_auth(client, url, api_auth, method, preflight, vendor) ==
    LET target == create_request_builder_target(client, url, preflight)
        rb0 == create_request_builder_request(method, target.url)
        rb1 == create_request_builder_auth(rb0, target.allow_auth, api_auth.token)
        rb2 == IF target.allow_auth
               THEN add_team_params(rb1, api_auth.team_id, api_auth.team_slug)
               ELSE rb1
    IN  create_request_builder_ci(rb2, vendor)

\* create_request_builder from line 151 on, given the target of lines 133-149.
create_request_builder_finish(client, url, api_auth, method, preflight, vendor) ==
    LET target == create_request_builder_target(client, url, preflight)
        rb0 == create_request_builder_request(method, target.url)
        rb1 == create_request_builder_auth(rb0, target.allow_auth, api_auth.token)
        rb2 == add_team_params(rb1, api_auth.team_id, api_auth.team_slug)
    IN  create_request_builder_ci(rb2, vendor)

\* ------------------------------------------------------------ results

Ok(v) == [ok |-> TRUE, val |-> v]

Err(e) == [ok |-> FALSE, val |-> e]

\* The failures an operation can end in: the probe failed, the transport gave
\* up, error_for_status refused the status, the body could not be read, the body
\* did not deserialize.
PreflightError == [kind |-> "Preflight", status |-> 0]

TransportError == [kind |-> "Transport", status |-> 0]

StatusError(status) == [kind |-> "Status", status |-> status]

DecodeError == [kind |-> "Decode", status |-> 0]

BodyError == [kind |-> "Body", status |-> 0]

Unit == [unit |-> TRUE]

\* Final statuses a server may answer with, and response bodies: a JSON object
\* of the SpaceRun shape, JSON of another shape, text that is not JSON, nothing.
Statuses == {200, 300, 404, 503}

Bodies == {[shape |-> "space_run", id |-> "run1", url |-> "https://vercel.com/run1"],
           [shape |-> "not_json", id |-> "", url |-> ""]}

Responses == [status : Statuses, body : Bodies]

\* StatusCode::is_success, is_client_error, is_server_error.
is_success(status) == 200 <= status /\ status <= 299

is_client_error(status) == 400 <= status /\ status <= 499

is_server_error(status) == 500 <= status /\ status <= 599

\* Mutant: only a server error is refused, a 4xx response passes.
error_for_status_server_only(response) ==
    IF is_server_error(response.status)
    THEN Err(StatusError(response.status))
    ELSE Ok(response)

\* Response::error_for_status: an error for a 4xx or 5xx status, else the response.
error_for_status(response) ==
    IF is_client_error(response.status) \/ is_server_error(response.status)
    THEN Err(StatusError(response.status))
    ELSE Ok(response)

\* Response::json::<SpaceRun>(): the handle when the body has the SpaceRun shape.
Response_json(response) ==
    IF response.body.shape = "space_run"
    THEN Ok([id |-> response.body.id, url |-> response.body.url])
    ELSE Err(DecodeError)

\* ------------------------------------------------------------ transport

\* What one attempt of the retrying transport may end in: a connection-level
\* failure or a response.
AttemptOutcomes == {Err(TransportError)} \cup {Ok(r) : r \in Responses}

\* Statuses the transport takes for transient.
RetryableStatuses == {503}

\* Whether the transport tries again after this outcome (if attempts are left).
should_retry(outcome) == ~outcome.ok \/ outcome.val.status \in RetryableStatuses

\* ------------------------------------------------------------ operations

\* format! of each operation's path (lines 174, 196, 218).
create_space_run_url(space_id) == "/v0/spaces/" \o space_id \o "/runs"

create_task_summary_url(space_id, run_id) ==
    "/v0/spaces/" \o space_id \o "/runs/" \o run_id \o "/tasks"

finish_space_run_url(space_id, run_id) ==
    "/v0/spaces/" \o space_id \o "/runs/" \o run_id

\* The method each operation passes to create_request_builder.
create_space_run_method == "POST"

create_task_summary_method == "POST"

\* Mutant: the run is finished with the method of the other two operations.
finish_space_run_method_post == "POST"

finish_space_run_method == "PATCH"

\* The JSON body each operation attaches with .json().
create_space_run_body(payload) == CreateSpaceRunPayload_json(payload)

create_task_summary_body(task) == SpaceTaskSummary_json(task)

finish_space_run_body(end_time, exit_code) ==
    FinishSpaceRunPayload_json(FinishSpaceRunPayload_new(end_time, exit_code))

\* make_retryable_request(..).await?.error_for_status()? of all three operations:
\* the transport's error, else the status error, else the response.
checked_response(sent) ==
    IF ~sent.ok THEN Err(sent.val) ELSE error_for_status(sent.val)

\* Mutant: the handle is read off the body without checking its shape.
create_space_run_result_unchecked(sent) ==
    LET response == checked_response(sent)
    IN  IF ~response.ok THEN response
        ELSE Ok([id |-> response.val.body.id, url |-> response.val.body.url])

\* Lines 180-184: the handle deserialized from an accepted response.
create_space_run_result(sent) ==
    LET response == checked_response(sent)
    IN  IF ~response.ok THEN response ELSE Response_json(response.val)

\* Mutant: the body of an accepted response is deserialized as in create_space_run.
create_task_summary_result_decodes(sent) ==
    LET response == checked_response(sent)
    IN  IF ~response.ok THEN response
        ELSE IF Response_json(response.val).ok THEN Ok(Unit) ELSE Err(DecodeError)

\* Lines 203-207: the body of an accepted response is dropped.
create_task_summary_result(sent) ==
    LET response == checked_response(sent)
    IN  IF ~response.ok THEN response ELSE Ok(Unit)

\* Mutant: finish_space_run leaves out error_for_status and takes any response
\* for success.
finish_space_run_result_unchecked(sent) ==
    IF ~sent.ok THEN Err(sent.val) ELSE Ok(Unit)

\* Lines 227-231: the body of an accepted response is dropped.
finish_space_run_result(sent) ==
    LET response == checked_response(sent)
    IN  IF ~response.ok THEN response ELSE Ok(Unit)

Ops == {"create_space_run", "create_task_summary", "finish_space_run"}

OpUrl(op, space_id, run_id) ==
    CASE op = "create_space_run" -> create_space_run_url(space_id)
      [] op = "create_task_summary" -> create_task_summary_url(space_id, run_id)
      [] op = "finish_space_run" -> finish_space_run_url(space_id, run_id)

OpMethod(op) ==
    CASE op = "create_space_run" -> create_space_run_method
      [] op = "create_task_summary" -> create_task_summary_method
      [] op = "finish_space_run" -> finish_space_run_method

OpBody(op, input) ==
    CASE op = "create_space_run" -> create_space_run_body(input.payload)
      [] op = "create_task_summary" -> create_task_summary_body(input.task)
      [] op = "finish_space_run" -> finish_space_run_body(input.end_time, input.exit_code)

OpResult(op, sent) ==
    CASE op = "create_space_run" -> create_space_run_result(sent)
      [] op = "create_task_summary" -> create_task_summary_result(sent)
      [] op = "finish_space_run" -> finish_space_run_result(sent)

\* ------------------------------------------------------------ state

VARIABLES
    client,     \* the APIClient: base_url and use_preflight, set at construction
    ci_vendor,  \* the CI vendor constant of the process environment, if any
    calls       \* per slot: the operation in flight, what it sent, how it ended:
                \*   pc         idle, preflight (do_preflight awaited), sending
                \*              (make_retryable_request awaited), decoding
                \*              (response.json() awaited), done
                \*   probes     the probes do_preflight was asked to send
                \*   preflight  what do_preflight returned, if it has
                \*   sent       the requests handed to make_retryable_request
                \*   attempts   the attempts the transport has made
                \*   transport  what make_retryable_request returned, if it has
                \*   body       what reading the response body gave, if it was read
                \*   result     what the operation returned, if it has
VARIABLES
    known_runs  \* history: the run ids of the handles create_space_run has
                \* returned to the caller so far

vars == <<client, ci_vendor, calls, known_runs>>

NoInput == [none |-> TRUE]

NoAuth == [token |-> "", team_id |-> "", team_slug |-> NoneOpt]

IdleCall ==
    [pc |-> "idle", op |-> "", space_id |-> "", run_id |-> "", api_auth |-> NoAuth,
     input |-> NoInput, probes |-> <<>>, preflight |-> NoneOpt, sent |-> <<>>,
     attempts |-> 0, transport |-> NoneOpt, body |-> NoneOpt, result |-> NoneOpt]

Init ==
    /\ client \in [base_url : BaseUrls, use_preflight : BOOLEAN]
    /\ ci_vendor \in CiVendors
    /\ calls = [c \in Slots |-> IdleCall]
    /\ known_runs = {}

\* Mutant: the auth context is kept in a place the operations share, so a request
\* assembled while the operation of slot 1 is in flight carries that operation's
\* token and team scoping.
OpRequest_shared_auth(call, preflight) ==
    LET api_auth == IF calls[1].pc # "idle" THEN calls[1].api_auth ELSE call.api_auth
    IN  json(create_request_builder_finish(client,
                                           OpUrl(call.op, call.space_id, call.run_id),
                                           api_auth, OpMethod(call.op), preflight,
                                           ci_vendor),
             OpBody(call.op, call.input))

\* The request an operation hands to the transport: create_request_builder's
\* builder with the operation's JSON body attached.
OpRequest(call, preflight) ==
    json(create_request_builder_finish(client, OpUrl(call.op, call.space_id, call.run_id),
                                       call.api_auth, OpMethod(call.op), preflight,
                                       ci_vendor),
         OpBody(call.op, call.input))

\* Mutant: an operation on a run is refused locally unless create_space_run has
\* returned that run's handle.
Started_ordered(op, space_id, run_id, api_auth, input) ==
    LET call == [IdleCall EXCEPT !.op = op, !.space_id = space_id, !.run_id = run_id,
                                 !.api_auth = api_auth, !.input = input]
        probe == create_request_builder_probe(client, OpUrl(op, space_id, run_id),
                                              api_auth, OpMethod(op))
    IN  IF op # "create_space_run" /\ run_id \notin known_runs
        THEN [call EXCEPT !.pc = "done",
                          !.result = Some(Err([kind |-> "Ordering", status |-> 0]))]
        ELSE IF probe # NoneOpt
        THEN [call EXCEPT !.pc = "preflight", !.probes = <<probe[1]>>]
        ELSE [call EXCEPT !.pc = "sending", !.attempts = 1,
                          !.sent = <<OpRequest(call, NoneOpt)>>]

\* Mutant: with use_preflight the request is handed to the transport along with
\* the probe, built for the original URL with the Authorization header.
Started_eager(op, space_id, run_id, api_auth, input) ==
    LET call == [IdleCall EXCEPT !.op = op, !.space_id = space_id, !.run_id = run_id,
                                 !.api_auth = api_auth, !.input = input]
        probe == create_request_builder_probe(client, OpUrl(op, space_id, run_id),
                                              api_auth, OpMethod(op))
        assumed == [allow_authorization_header |-> TRUE,
                    location |-> make_url(client.base_url, OpUrl(op, space_id, run_id))]
    IN  IF probe # NoneOpt
        THEN [call EXCEPT !.pc = "preflight", !.probes = <<probe[1]>>,
                          !.sent = <<OpRequest(call, Some(assumed))>>]
        ELSE [call EXCEPT !.pc = "sending", !.attempts = 1,
                          !.sent = <<OpRequest(call, NoneOpt)>>]

\* An operation from its call to its first suspension: with use_preflight the
\* probe is out and do_preflight is awaited, otherwise the request is assembled
\* and handed to make_retryable_request.
Started(op, space_id, run_id, api_auth, input) ==
    LET call == [IdleCall EXCEPT !.op = op, !.space_id = space_id, !.run_id = run_id,
                                 !.api_auth = api_auth, !.input = input]
        probe == create_request_builder_probe(client, OpUrl(op, space_id, run_id),
                                              api_auth, OpMethod(op))
    IN  IF probe # NoneOpt
        THEN [call EXCEPT !.pc = "preflight", !.probes = <<probe[1]>>]
        ELSE [call EXCEPT !.pc = "sending", !.attempts = 1,
                          !.sent = <<OpRequest(call, NoneOpt)>>]

\* The arguments callers pass to the operations.
FullArgs ==
    [space_ids |-> SpaceIds, run_ids |-> RunIds, auths |-> APIAuths,
     start_times |-> StartTimes, tasks |-> TaskSummaries,
     end_times |-> EndTimes, exit_codes |-> ExitCodes]

create_space_run_from(c, args) ==
    /\ calls[c].pc = "idle"
    /\ \E space_id \in args.space_ids, api_auth \in args.auths,
          start_time \in args.start_times :
          calls' = [calls EXCEPT ![c] =
              Started("create_space_run", space_id, "", api_auth,
                      [payload |-> CreateSpaceRunPayload_new(start_time,
                           "turbo run build", NoneOpt, Some("main"), NoneOpt,
                           "1.10.0", "alice", ci_vendor)])]
    /\ UNCHANGED <<client, ci_vendor, known_runs>>

create_task_summary_from(c, args) ==
    /\ calls[c].pc = "idle"
    /\ \E space_id \in args.space_ids, run_id \in args.run_ids,
          api_auth \in args.auths, task \in args.tasks :
          calls' = [calls EXCEPT ![c] =
              Started("create_task_summary", space_id, run_id, api_auth,
                      [task |-> task])]
    /\ UNCHANGED <<client, ci_vendor, known_runs>>

finish_space_run_from(c, args) ==
    /\ calls[c].pc = "idle"
    /\ \E space_id \in args.space_ids, run_id \in args.run_ids,
          api_auth \in args.auths, end_time \in args.end_times,
          exit_code \in args.exit_codes :
          calls' = [calls EXCEPT ![c] =
              Started("finish_space_run", space_id, run_id, api_auth,
                      [end_time |-> end_time, exit_code |-> exit_code])]
    /\ UNCHANGED <<client, ci_vendor, known_runs>>

create_space_run(c) == create_space_run_from(c, FullArgs)

create_task_summary(c) == create_task_summary_from(c, FullArgs)

finish_space_run(c) == finish_space_run_from(c, FullArgs)

\* Mutant: a failed probe falls back to sending the request without a verdict.
after_preflight_fallback(call, answer) ==
    IF ~answer.ok
    THEN [call EXCEPT !.pc = "sending", !.preflight = Some(answer), !.attempts = 1,
                      !.sent = Append(@, json(
                          create_request_builder_finish(
                              [client EXCEPT !.use_preflight = FALSE],
                              OpUrl(call.op, call.space_id, call.run_id),
                              call.api_auth, OpMethod(call.op), NoneOpt, ci_vendor),
                          OpBody(call.op, call.input)))]
    ELSE [call EXCEPT !.pc = "sending", !.preflight = Some(answer), !.attempts = 1,
                      !.sent = Append(@, OpRequest(call, Some(answer.val)))]

\* Lines 143-149 and the caller's .await? (177, 200, 224) once do_preflight has
\* answered: its error ends the operation, its verdict lets the request be
\* assembled and handed to make_retryable_request.
after_preflight(call, answer) ==
    IF ~answer.ok
    THEN [call EXCEPT !.pc = "done", !.preflight = Some(answer),
                      !.result = Some(Err(answer.val))]
    ELSE [call EXCEPT !.pc = "sending", !.preflight = Some(answer), !.attempts = 1,
                      !.sent = Append(@, OpRequest(call, Some(answer.val)))]

\* do_preflight(..).await returns Err.
PreflightFails(c) ==
    /\ calls[c].pc = "preflight"
    /\ calls' = [calls EXCEPT ![c] = after_preflight(calls[c], Err(PreflightError))]
    /\ UNCHANGED <<client, ci_vendor, known_runs>>

\* do_preflight(..).await returns a verdict.
PreflightReturns(c) ==
    /\ calls[c].pc = "preflight"
    /\ \E verdict \in PreflightVerdicts(calls[c].probes[1].url) :
          calls' = [calls EXCEPT ![c] = after_preflight(calls[c], Ok(verdict))]
    /\ UNCHANGED <<client, ci_vendor, known_runs>>

\* Inside make_retryable_request: a transient outcome with attempts left, the
\* same request is tried again.
TransportRetries(c) ==
    /\ calls[c].pc = "sending"
    /\ calls[c].attempts < MaxAttempts
    /\ \E outcome \in AttemptOutcomes : should_retry(outcome)
    /\ calls' = [calls EXCEPT ![c].attempts = @ + 1]
    /\ UNCHANGED <<client, ci_vendor, known_runs>>

\* Mutant: a failed outcome makes the operation hand the request to the
\* transport once more instead of ending.
after_transport_resubmit(call, outcome) ==
    IF checked_response(outcome).ok \/ Len(call.sent) > 1
    THEN IF call.op = "create_space_run" /\ checked_response(outcome).ok
         THEN [call EXCEPT !.pc = "decoding", !.transport = Some(outcome)]
         ELSE [call EXCEPT !.pc = "done", !.transport = Some(outcome),
                           !.result = Some(OpResult(call.op, outcome))]
    ELSE [call EXCEPT !.pc = "sending", !.attempts = 1,
                      !.sent = Append(@, call.sent[1])]

\* Mutant: on a transport error the operation does not end but waits on the
\* transport again, with a fresh set of attempts.
after_transport_starts_over(call, outcome) ==
    IF ~outcome.ok
    THEN [call EXCEPT !.pc = "sending", !.attempts = 1]
    ELSE IF call.op = "create_space_run" /\ checked_response(outcome).ok
    THEN [call EXCEPT !.pc = "decoding", !.transport = Some(outcome)]
    ELSE [call EXCEPT !.pc = "done", !.transport = Some(outcome),
                      !.result = Some(OpResult(call.op, outcome))]

\* Lines 180-182, 203-207, 227-231 once make_retryable_request has returned:
\* create_space_run with a response error_for_status accepts goes on to
\* response.json().await (line 184) and has no result yet; otherwise the
\* operation classifies the outcome and ends.
after_transport(call, outcome) ==
    IF call.op = "create_space_run" /\ checked_response(outcome).ok
    THEN [call EXCEPT !.pc = "decoding", !.transport = Some(outcome)]
    ELSE [call EXCEPT !.pc = "done", !.transport = Some(outcome),
                      !.result = Some(OpResult(call.op, outcome))]

\* Line 184 once response.json().await has returned: a failure to read the body
\* is the operation's error, a body read is deserialized into the handle.
after_body(call, read) ==
    [call EXCEPT !.pc = "done", !.body = Some(read),
                 !.result = Some(IF ~read.ok THEN Err(read.val)
                                 ELSE create_space_run_result(call.transport[1]))]

\* The run ids the caller knows once the operation in call has returned: a
\* handle from create_space_run adds its id.
runs_after(call, known) ==
    IF call.pc = "done" /\ call.op = "create_space_run" /\ call.result[1].ok
    THEN known \cup {call.result[1].val.id}
    ELSE known

\* make_retryable_request(..).await returns its final outcome (a terminal one, or
\* the last attempt's); the operation classifies it and ends, or create_space_run
\* starts reading the body of an accepted response.
TransportReturns(c) ==
    /\ calls[c].pc = "sending"
    /\ \E outcome \in AttemptOutcomes :
          /\ ~should_retry(outcome) \/ calls[c].attempts = MaxAttempts
          /\ calls' = [calls EXCEPT ![c] = after_transport(calls[c], outcome)]
    /\ UNCHANGED <<client, ci_vendor, known_runs>>

\* response.json().await of create_space_run fails to read the body.
BodyFails(c) ==
    /\ calls[c].pc = "decoding"
    /\ calls' = [calls EXCEPT ![c] = after_body(calls[c], Err(BodyError))]
    /\ UNCHANGED <<client, ci_vendor, known_runs>>

\* response.json().await of create_space_run has the whole body: the handle, or
\* the decode error, is returned.
BodyReturns(c) ==
    /\ calls[c].pc = "decoding"
    /\ calls' = [calls EXCEPT ![c] =
                    after_body(calls[c], Ok(calls[c].transport[1].val.body))]
    /\ known_runs' = runs_after(after_body(calls[c], Ok(calls[c].transport[1].val.body)),
                                known_runs)
    /\ UNCHANGED <<client, ci_vendor>>

\* The caller takes the result; the slot is free for the next operation.
Returned(c) ==
    /\ calls[c].pc = "done"
    /\ calls' = [calls EXCEPT ![c] = IdleCall]
    /\ UNCHANGED <<client, ci_vendor, known_runs>>

Next ==
    \E c \in Slots :
        \/ create_space_run(c)
        \/ create_task_summary(c)
        \/ finish_space_run(c)
        \/ PreflightFails(c)
        \/ PreflightReturns(c)
        \/ TransportRetries(c)
        \/ TransportReturns(c)
        \/ BodyFails(c)
        \/ BodyReturns(c)
        \/ Returned(c)

Spec == Init /\ [][Next]_vars

\* The operations are futures driven by the caller's executor: an awaited
\* do_preflight returns, and the transport keeps making progress until it
\* returns its final outcome. Nothing makes the read of a response body
\* (response.json().await) return: the body may never arrive.
Fairness ==
    \A c \in Slots :
        /\ WF_vars(PreflightFails(c) \/ PreflightReturns(c))
        /\ WF_vars(TransportRetries(c) \/ TransportReturns(c))

FairSpec == Spec /\ Fairness

\* ------------------------------------------------------------ concurrent calls

\* Two operations in flight on one client, issued from concurrent tasks. Each
\* task has its own auth context; the two contexts differ in every field.
ConcSlots == {1, 2}

ConcAuth(c) ==
    IF c = 1
    THEN [token |-> "t1", team_id |-> "", team_slug |-> NoneOpt]
    ELSE [token |-> "t2", team_id |-> "team_1", team_slug |-> Some("my-team")]

ConcArgs(c) ==
    [space_ids |-> {"space1"}, run_ids |-> RunIds, auths |-> {ConcAuth(c)},
     start_times |-> {1000}, tasks |-> {TaskSummary(1000, 1200)},
     end_times |-> {1700}, exit_codes |-> {-1}]

InitConc ==
    /\ client \in [base_url : BaseUrls, use_preflight : BOOLEAN]
    /\ ci_vendor \in CiVendors
    /\ calls = [c \in ConcSlots |-> IdleCall]
    /\ known_runs = {}

NextConc ==
    \E c \in ConcSlots :
        \/ create_space_run_from(c, ConcArgs(c))
        \/ create_task_summary_from(c, ConcArgs(c))
        \/ finish_space_run_from(c, ConcArgs(c))
        \/ PreflightFails(c)
        \/ PreflightReturns(c)
        \/ TransportRetries(c)
        \/ TransportReturns(c)
        \/ BodyFails(c)
        \/ BodyReturns(c)
        \/ Returned(c)

SpecConc == InitConc /\ [][NextConc]_vars

\* ------------------------------------------------------------ properties

\* The URL create_request_builder resolves for the operation in slot c.
OriginalUrl(c) ==
    make_url(client.base_url, OpUrl(calls[c].op, calls[c].space_id, calls[c].run_id))

\* do_preflight has answered the operation in slot c with a verdict.
HasVerdict(c) == calls[c].preflight # NoneOpt /\ calls[c].preflight[1].ok

Verdict(c) == calls[c].preflight[1].val

\* C1: with preflight enabled, when the probe's verdict has
\* allow_authorization_header = false, the real request of the operation carries
\* no Authorization header, whatever the operation, token and team scoping.
C1_NoAuthorizationWhenDisallowed ==
    \A c \in Slots :
        (client.use_preflight /\ HasVerdict(c)
         /\ ~Verdict(c).allow_authorization_header)
        => \A i \in DOMAIN calls[c].sent : ~HasHeader(calls[c].sent[i], "Authorization")

C1_Witness ==
    \E c \in Slots :
        /\ client.use_preflight /\ HasVerdict(c)
        /\ ~Verdict(c).allow_authorization_header
        /\ Len(calls[c].sent) = 1
        /\ calls[c].op = "finish_space_run"
        /\ calls[c].api_auth.token = "t2"
        /\ calls[c].api_auth.team_id # ""

\* C2: with preflight disabled no operation issues a probe, and every real
\* request carries Authorization: Bearer <token> of the call's auth context and
\* targets the URL resolved from the operation's path.
C2_NoPreflightDefaultVerdict ==
    \A c \in Slots :
        ~client.use_preflight
        => /\ calls[c].probes = <<>>
           /\ calls[c].pc # "preflight"
           /\ calls[c].preflight = NoneOpt
           /\ \A i \in DOMAIN calls[c].sent :
                 /\ HeaderValues(calls[c].sent[i], "Authorization")
                       = {"Bearer " \o calls[c].api_auth.token}
                 /\ calls[c].sent[i].url = OriginalUrl(c)

C2_Witness ==
    \E c \in Slots :
        /\ ~client.use_preflight
        /\ calls[c].pc = "done"
        /\ Len(calls[c].sent) = 1
        /\ calls[c].api_auth.token = "t1"
        /\ calls[c].result[1].ok

\* C3: with preflight enabled, when the verdict's location differs from the URL
\* resolved from the original path, the real request goes to the verdict's
\* location and no real request goes to the original URL.
C3_RequestTargetsVerdictLocation ==
    \A c \in Slots :
        (client.use_preflight /\ HasVerdict(c) /\ Verdict(c).location # OriginalUrl(c))
        => \A i \in DOMAIN calls[c].sent :
              /\ calls[c].sent[i].url = Verdict(c).location
              /\ calls[c].sent[i].url # OriginalUrl(c)

C3_Witness ==
    \E c \in Slots :
        /\ client.use_preflight /\ HasVerdict(c)
        /\ Verdict(c).location # OriginalUrl(c)
        /\ Len(calls[c].sent) = 1
        /\ calls[c].pc = "done"

\* C4: with preflight enabled, when the probe fails the operation ends in
\* failure with the preflight error, the real request is never sent, and the
\* probe is not issued again.
C4_PreflightFailureIsFatal ==
    \A c \in Slots :
        (calls[c].preflight # NoneOpt /\ ~calls[c].preflight[1].ok)
        => /\ calls[c].pc = "done"
           /\ calls[c].result = Some(Err(PreflightError))
           /\ calls[c].sent = <<>>
           /\ calls[c].transport = NoneOpt
           /\ Len(calls[c].probes) = 1

C4_Witness ==
    \E c \in Slots :
        /\ client.use_preflight
        /\ calls[c].preflight = Some(Err(PreflightError))
        /\ calls[c].pc = "done"
        /\ calls[c].op = "create_space_run"

Done(c) == calls[c].pc = "done"

\* make_retryable_request has returned a response to the operation in slot c.
HasResponse(c) == calls[c].transport # NoneOpt /\ calls[c].transport[1].ok

FinalResponse(c) == calls[c].transport[1].val

\* error_for_status refuses the status: 4xx or 5xx.
IsErrorStatus(status) == is_client_error(status) \/ is_server_error(status)

\* C5 as stated: a final response with a non-2xx status makes the operation fail
\* with that status, a transport error makes it fail with that error, and no
\* operation succeeds unless the final response was 2xx.
C5_Original ==
    \A c \in Slots :
        Done(c) =>
            /\ (HasResponse(c) /\ ~is_success(FinalResponse(c).status))
                  => calls[c].result = Some(Err(StatusError(FinalResponse(c).status)))
            /\ (calls[c].transport # NoneOpt /\ ~calls[c].transport[1].ok)
                  => calls[c].result = Some(Err(calls[c].transport[1].val))
            /\ calls[c].result[1].ok
                  => HasResponse(c) /\ is_success(FinalResponse(c).status)

\* C5 amended: a final response with a 4xx or 5xx status makes the operation fail
\* with that status, a transport error makes it fail with that error, and no
\* operation succeeds unless the final response had a status outside 4xx and 5xx.
C5_ErrorStatusOrTransportErrorFails ==
    \A c \in Slots :
        Done(c) =>
            /\ (HasResponse(c) /\ IsErrorStatus(FinalResponse(c).status))
                  => calls[c].result = Some(Err(StatusError(FinalResponse(c).status)))
            /\ (calls[c].transport # NoneOpt /\ ~calls[c].transport[1].ok)
                  => calls[c].result = Some(Err(calls[c].transport[1].val))
            /\ calls[c].result[1].ok
                  => HasResponse(c) /\ ~IsErrorStatus(FinalResponse(c).status)

\* 503 on every attempt up to the transport's bound, and the operation fails
\* with that status.
C5_Witness ==
    \E c \in Slots :
        /\ Done(c)
        /\ calls[c].attempts = MaxAttempts
        /\ HasResponse(c) /\ FinalResponse(c).status = 503
        /\ calls[c].result = Some(Err(StatusError(503)))

\* response.json().await of the operation in slot c has read the whole body.
BodyRead(c) == calls[c].body # NoneOpt /\ calls[c].body[1].ok

\* C6 as stated: create_space_run returns a handle only when the final response
\* was 2xx and its body deserialized into the handle, and a 2xx response whose
\* body does not match fails with a deserialization error, which is not the
\* error of a refused status.
C6_Original ==
    \A c \in Slots :
        (Done(c) /\ calls[c].op = "create_space_run") =>
            /\ calls[c].result[1].ok
                  => /\ HasResponse(c) /\ is_success(FinalResponse(c).status)
                     /\ BodyRead(c) /\ calls[c].body[1].val.shape = "space_run"
                     /\ calls[c].result[1].val.id = calls[c].body[1].val.id
            /\ (HasResponse(c) /\ is_success(FinalResponse(c).status)
                /\ BodyRead(c) /\ calls[c].body[1].val.shape # "space_run")
                  => /\ calls[c].result = Some(Err(DecodeError))
                     /\ \A st \in Statuses : calls[c].result[1].val # StatusError(st)

\* C6 amended: create_space_run returns a handle only when the final response
\* had a status outside 4xx and 5xx and its body was read and deserialized into
\* the handle; such a response (every 2xx one included) whose body does not
\* match fails with a deserialization error, and one whose body cannot be read
\* fails with the read error, neither being the error of a refused status.
C6_HandleOnlyFromAcceptedParsedResponse ==
    \A c \in Slots :
        (Done(c) /\ calls[c].op = "create_space_run") =>
            /\ calls[c].result[1].ok
                  => /\ HasResponse(c) /\ ~IsErrorStatus(FinalResponse(c).status)
                     /\ BodyRead(c) /\ calls[c].body[1].val = FinalResponse(c).body
                     /\ calls[c].body[1].val.shape = "space_run"
                     /\ calls[c].result[1].val.id = calls[c].body[1].val.id
            /\ (HasResponse(c) /\ ~IsErrorStatus(FinalResponse(c).status))
                  => /\ calls[c].body # NoneOpt
                     /\ (BodyRead(c) /\ calls[c].body[1].val.shape # "space_run")
                           => calls[c].result = Some(Err(DecodeError))
                     /\ ~BodyRead(c) => calls[c].result = Some(Err(BodyError))
                     /\ \A st \in Statuses : calls[c].result[1].val # StatusError(st)
            /\ (HasResponse(c) /\ IsErrorStatus(FinalResponse(c).status))
                  => calls[c].body = NoneOpt

C6_Witness ==
    \E c \in Slots :
        /\ Done(c) /\ calls[c].op = "create_space_run"
        /\ HasResponse(c) /\ FinalResponse(c).status = 200
        /\ BodyRead(c) /\ calls[c].body[1].val.shape = "not_json"
        /\ calls[c].result = Some(Err(DecodeError))

\* C7 as stated: create_task_summary and finish_space_run succeed exactly when
\* the final response status is 2xx, whatever the body.
C7_Original ==
    \A c \in Slots :
        (Done(c) /\ calls[c].op \in {"create_task_summary", "finish_space_run"}) =>
            (calls[c].result[1].ok
             <=> (HasResponse(c) /\ is_success(FinalResponse(c).status)))

\* C7 amended: create_task_summary and finish_space_run succeed exactly when
\* the transport returns a response whose status is outside 4xx and 5xx; the
\* body is dropped, so every 2xx response succeeds whatever its body, and the
\* value returned does not depend on it.
C7_SuccessIffStatusAccepted ==
    \A c \in Slots :
        (Done(c) /\ calls[c].op \in {"create_task_summary", "finish_space_run"}) =>
            /\ calls[c].result[1].ok
                  <=> (HasResponse(c) /\ ~IsErrorStatus(FinalResponse(c).status))
            /\ (HasResponse(c) /\ is_success(FinalResponse(c).status))
                  => calls[c].result = Some(Ok(Unit))

C7_Witness ==
    \E c \in Slots :
        /\ Done(c) /\ calls[c].op = "create_task_summary"
        /\ HasResponse(c) /\ FinalResponse(c).status = 200
        /\ FinalResponse(c).body.shape = "not_json"
        /\ calls[c].result = Some(Ok(Unit))

\* C8: the assembled request carries the team-id query parameter exactly when
\* team_id is non-empty and the team-slug query parameter exactly when team_slug
\* is present, each with the auth context's value, and no other query parameter.
C8_TeamParamsFollowAuthContext ==
    \A c \in Slots : \A i \in DOMAIN calls[c].sent :
        LET rb == calls[c].sent[i]
            auth == calls[c].api_auth
        IN  /\ HasQuery(rb, "teamId") <=> auth.team_id # ""
            /\ HasQuery(rb, "teamId") => QueryValues(rb, "teamId") = {auth.team_id}
            /\ HasQuery(rb, "slug") <=> auth.team_slug # NoneOpt
            /\ HasQuery(rb, "slug") => QueryValues(rb, "slug") = {auth.team_slug[1]}
            /\ Len(rb.query) = (IF auth.team_id # "" THEN 1 ELSE 0)
                               + (IF auth.team_slug # NoneOpt THEN 1 ELSE 0)

C8_Witness ==
    \E c \in Slots :
        /\ Len(calls[c].sent) = 1
        /\ calls[c].api_auth.team_id = "team_1"
        /\ calls[c].api_auth.team_slug = Some("my-team")
        /\ Len(calls[c].sent[1].query) = 2

\* The absent case of C8: no team id, no slug, no query parameters.
C8_WitnessNone ==
    \E c \in Slots :
        /\ Len(calls[c].sent) = 1
        /\ calls[c].api_auth.team_id = ""
        /\ calls[c].api_auth.team_slug = NoneOpt
        /\ calls[c].sent[1].query = <<>>

\* C9 as stated: the body of finish_space_run carries the status as the
\* literal "Completed", and the caller's end_time and exit_code unchanged.
C9_Original ==
    \A c \in Slots : \A i \in DOMAIN calls[c].sent :
        calls[c].op = "finish_space_run"
        => /\ calls[c].sent[i].body[1].status = "Completed"
           /\ calls[c].sent[i].body[1].endTime = calls[c].input.end_time
           /\ calls[c].sent[i].body[1].exitCode = calls[c].input.exit_code

\* C9 amended: the body of finish_space_run always carries the Completed status,
\* which RunStatus serializes in lowercase as "completed", for every end_time
\* and exit_code, and carries the caller's end_time and exit_code unchanged.
C9_FinishStatusAlwaysCompleted ==
    \A c \in Slots : \A i \in DOMAIN calls[c].sent :
        calls[c].op = "finish_space_run"
        => calls[c].sent[i].body
                 = Some([status |-> "completed",
                         endTime |-> calls[c].input.end_time,
                         exitCode |-> calls[c].input.exit_code])

C9_Witness ==
    \E c \in Slots :
        /\ calls[c].op = "finish_space_run"
        /\ Len(calls[c].sent) = 1
        /\ calls[c].input.exit_code < 0
        /\ calls[c].sent[1].body[1].exitCode < 0

\* C10: each operation uses its method and path template (POST
\* /v0/spaces/{space_id}/runs, POST /v0/spaces/{space_id}/runs/{run_id}/tasks,
\* PATCH /v0/spaces/{space_id}/runs/{run_id}), resolved against the base URL,
\* for the probe and, unless the verdict names another location, for the real
\* request; and the probe declares the method of the real request.
ExpectedMethod(c) ==
    IF calls[c].op = "finish_space_run" THEN "PATCH" ELSE "POST"

ExpectedUrl(c) ==
    CASE calls[c].op = "create_space_run" ->
            client.base_url \o "/v0/spaces/" \o calls[c].space_id \o "/runs"
      [] calls[c].op = "create_task_summary" ->
            client.base_url \o "/v0/spaces/" \o calls[c].space_id \o "/runs/"
                \o calls[c].run_id \o "/tasks"
      [] calls[c].op = "finish_space_run" ->
            client.base_url \o "/v0/spaces/" \o calls[c].space_id \o "/runs/"
                \o calls[c].run_id

C10_FixedMethodAndPath ==
    \A c \in Slots :
        /\ \A i \in DOMAIN calls[c].probes :
              /\ calls[c].probes[i].method = ExpectedMethod(c)
              /\ calls[c].probes[i].url = ExpectedUrl(c)
        /\ \A i \in DOMAIN calls[c].sent :
              /\ calls[c].sent[i].method = ExpectedMethod(c)
              /\ (~HasVerdict(c) \/ Verdict(c).location = calls[c].probes[1].url)
                    => calls[c].sent[i].url = ExpectedUrl(c)
              /\ \A j \in DOMAIN calls[c].probes :
                    calls[c].probes[j].method = calls[c].sent[i].method

C10_Witness ==
    \E c \in Slots :
        /\ calls[c].op = "finish_space_run"
        /\ Len(calls[c].probes) = 1 /\ Len(calls[c].sent) = 1
        /\ calls[c].sent[1].method = "PATCH"
        /\ calls[c].probes[1].method = "PATCH"
        /\ calls[c].space_id = "space2"


\* C11: every operation issues at most one probe (none without preflight) and
\* hands the real request to the retrying transport at most once, also when it
\* ends in failure; the attempts beyond the first are the transport's own.
C11_AtMostOneProbeAndOneSubmission ==
    \A c \in DOMAIN calls :
        /\ Len(calls[c].probes) <= 1
        /\ Len(calls[c].sent) <= 1
        /\ calls[c].attempts <= MaxAttempts
        /\ calls[c].attempts > 0 => Len(calls[c].sent) = 1
        /\ Done(c) => Len(calls[c].probes) + Len(calls[c].sent) <= 2

\* A probe, then one submission that the transport tried up to its bound, and
\* the operation ended in failure without a second submission.
C11_Witness ==
    \E c \in DOMAIN calls :
        /\ Done(c)
        /\ ~calls[c].result[1].ok
        /\ Len(calls[c].probes) = 1
        /\ Len(calls[c].sent) = 1
        /\ calls[c].attempts = MaxAttempts


\* The operation in slot c names a run whose handle no create_space_run has
\* returned yet.
OnUnknownRun(c) ==
    /\ calls[c].op \in {"create_task_summary", "finish_space_run"}
    /\ calls[c].run_id \notin known_runs

\* C12: create_task_summary or finish_space_run for a run_id whose
\* create_space_run has not returned is not refused locally: its probe or its
\* request goes out as for any other call, and if it fails, the failure is the
\* probe's, the transport's, or the status the server answered with.
C12_NoLocalOrderingCheck ==
    \A c \in DOMAIN calls :
        OnUnknownRun(c) =>
            /\ client.use_preflight => Len(calls[c].probes) = 1
            /\ ~client.use_preflight => Len(calls[c].sent) = 1
            /\ (Done(c) /\ ~calls[c].result[1].ok) =>
                  \/ /\ calls[c].preflight = Some(Err(PreflightError))
                     /\ calls[c].result = Some(Err(PreflightError))
                  \/ /\ calls[c].transport = Some(Err(TransportError))
                     /\ calls[c].result = Some(Err(TransportError))
                  \/ /\ HasResponse(c) /\ IsErrorStatus(FinalResponse(c).status)
                     /\ calls[c].result = Some(Err(StatusError(FinalResponse(c).status)))

\* A task reported for a run nobody created yet: sent, and refused by the server.
C12_Witness ==
    \E c \in DOMAIN calls :
        /\ known_runs = {}
        /\ OnUnknownRun(c) /\ calls[c].op = "create_task_summary"
        /\ Done(c)
        /\ Len(calls[c].sent) = 1
        /\ HasResponse(c) /\ FinalResponse(c).status = 404
        /\ calls[c].result = Some(Err(StatusError(404)))


\* ---------------------------------------------------------------- C13

\* What the operation in slot c must have put on the wire and returned, computed
\* from nothing but its own arguments, the client configuration and the answers
\* to its own probe and request.
OwnProbe(c) ==
    create_request_builder_probe(client,
                                 OpUrl(calls[c].op, calls[c].space_id, calls[c].run_id),
                                 calls[c].api_auth, OpMethod(calls[c].op))

OwnRequest(c) ==
    json(create_request_builder_finish(client,
             OpUrl(calls[c].op, calls[c].space_id, calls[c].run_id),
             calls[c].api_auth, OpMethod(calls[c].op),
             IF HasVerdict(c) THEN Some(Verdict(c)) ELSE NoneOpt, ci_vendor),
         OpBody(calls[c].op, calls[c].input))

OwnResult(c) ==
    IF calls[c].body # NoneOpt
    THEN Some(IF ~calls[c].body[1].ok THEN Err(calls[c].body[1].val)
              ELSE OpResult(calls[c].op, calls[c].transport[1]))
    ELSE IF calls[c].pc = "decoding"
    THEN NoneOpt
    ELSE IF calls[c].transport # NoneOpt
    THEN Some(OpResult(calls[c].op, calls[c].transport[1]))
    ELSE IF calls[c].preflight # NoneOpt /\ ~calls[c].preflight[1].ok
    THEN Some(Err(calls[c].preflight[1].val))
    ELSE NoneOpt

DependsOnOwnInputsOnly(c) ==
    calls[c].pc # "idle" =>
        /\ calls[c].probes = OwnProbe(c)
        /\ calls[c].sent # <<>> => calls[c].sent = <<OwnRequest(c)>>
        /\ BodyRead(c) => calls[c].body[1].val = calls[c].transport[1].val.body
        /\ calls[c].pc = "decoding" =>
              /\ calls[c].op = "create_space_run"
              /\ HasResponse(c) /\ ~IsErrorStatus(FinalResponse(c).status)
        /\ calls[c].result = OwnResult(c)

\* A step belongs to one operation: it leaves the client configuration and every
\* other operation in flight as they were.
StepOfOneOperation ==
    /\ client' = client
    /\ \A c, d \in DOMAIN calls :
          (c # d /\ calls'[c] # calls[c]) => calls'[d] = calls[d]

\* C13: under any interleaving of concurrent operations on one client, each
\* operation's probe, assembled request (URL, headers, token, team parameters,
\* body) and outcome depend only on its own arguments, the client configuration
\* and the responses to its own requests, and no operation changes the client's
\* base endpoint or preflight flag.
C13_OperationsShareNoMutableState ==
    /\ [](\A c \in DOMAIN calls : DependsOnOwnInputsOnly(c))
    /\ [][StepOfOneOperation]_vars

\* Two operations with different auth contexts are in flight at once, both with
\* their request handed to the transport, the second after the first.
C13_Witness ==
    /\ DOMAIN calls = ConcSlots
    /\ calls[1].pc = "sending" /\ calls[2].pc = "sending"
    /\ calls[1].api_auth.token # calls[2].api_auth.token
    /\ calls[1].op # calls[2].op
    /\ HeaderValues(calls[1].sent[1], "Authorization") = {Bearer(calls[1].api_auth.token)}
    /\ HeaderValues(calls[2].sent[1], "Authorization") = {Bearer(calls[2].api_auth.token)}
    /\ HasQuery(calls[2].sent[1], "teamId") /\ ~HasQuery(calls[1].sent[1], "teamId")


\* create_space_run is reading the body of its response while another operation,
\* started after that response arrived or before, has run to its success.
C13_WitnessBodyGap ==
    /\ DOMAIN calls = ConcSlots
    /\ calls[1].pc = "decoding" /\ calls[1].result = NoneOpt
    /\ calls[2].pc = "done" /\ calls[2].op = "create_task_summary"
    /\ calls[2].result = Some(Ok(Unit))

\* ---------------------------------------------------------------- C14

\* The builder create_request_builder returned to the operation in slot c,
\* before the operation attached its body.
Assembled(c) ==
    create_request_builder_finish(client,
        OpUrl(calls[c].op, calls[c].space_id, calls[c].run_id),
        calls[c].api_auth, OpMethod(calls[c].op),
        IF HasVerdict(c) THEN Some(Verdict(c)) ELSE NoneOpt, ci_vendor)

ContentTypeHeaders(rb) == {i \in DOMAIN rb.headers : rb.headers[i][1] = "Content-Type"}

\* C14: every request assembled by create_request_builder carries
\* Content-Type: application/json, whatever the method, the preflight mode, the
\* verdict, the team scoping and the CI environment; attaching the JSON body
\* therefore adds no header, and the request on the wire has exactly that one.
C14_ContentTypeAlwaysJson ==
    \A c \in DOMAIN calls :
        calls[c].sent # <<>> =>
            /\ HeaderValues(Assembled(c), "Content-Type") = {"application/json"}
            /\ calls[c].sent[1].headers = Assembled(c).headers
            /\ Cardinality(ContentTypeHeaders(calls[c].sent[1])) = 1

\* A PATCH under preflight, redirected and denied the Authorization header, with
\* team scoping and a CI vendor, has been handed to the transport.
C14_Witness ==
    \E c \in DOMAIN calls :
        /\ calls[c].sent # <<>>
        /\ calls[c].sent[1].method = "PATCH"
        /\ client.use_preflight
        /\ ~Verdict(c).allow_authorization_header
        /\ Verdict(c).location # OriginalUrl(c)
        /\ HasQuery(calls[c].sent[1], "teamId")
        /\ ci_vendor # NoneOpt
        /\ HeaderValues(calls[c].sent[1], "Content-Type") = {"application/json"}


\* ---------------------------------------------------------------- C15

CiHeaders(rb) == {i \in DOMAIN rb.headers : rb.headers[i][1] = "x-artifact-client-ci"}

\* create_request_builder has run to its end for the operation in slot c: no
\* probe was needed, or the probe came back with a verdict.
AssemblyReached(c) ==
    calls[c].pc # "idle" /\ (~client.use_preflight \/ HasVerdict(c))

\* C15: the assembled request carries x-artifact-client-ci with the vendor
\* constant if and only if a CI vendor is detected; the one query gives at most
\* one such header, and without a vendor the request is assembled all the same.
C15_CiHeaderIffVendorDetected ==
    \A c \in DOMAIN calls :
        /\ AssemblyReached(c) => Len(calls[c].sent) = 1
        /\ calls[c].sent # <<>> =>
              /\ HasHeader(calls[c].sent[1], "x-artifact-client-ci") <=> ci_vendor # NoneOpt
              /\ ci_vendor # NoneOpt =>
                    /\ HeaderValues(calls[c].sent[1], "x-artifact-client-ci") = {ci_vendor[1]}
                    /\ Cardinality(CiHeaders(calls[c].sent[1])) = 1

\* Without a detected vendor a request went out with no CI header and the
\* operation succeeded.
C15_Witness ==
    \E c \in DOMAIN calls :
        /\ ci_vendor = NoneOpt
        /\ Done(c) /\ calls[c].result[1].ok
        /\ Len(calls[c].sent) = 1
        /\ ~HasHeader(calls[c].sent[1], "x-artifact-client-ci")

\* With a detected vendor the request carries its constant.
C15_WitnessVendor ==
    \E c \in DOMAIN calls :
        /\ ci_vendor = Some("VERCEL")
        /\ calls[c].sent # <<>>
        /\ HeaderValues(calls[c].sent[1], "x-artifact-client-ci") = {"VERCEL"}


\* ---------------------------------------------------------------- C16

\* The timestamp fields of the body the operation in slot c sent.
SentTimestamps(c) ==
    LET body == calls[c].sent[1].body[1]
    IN  CASE calls[c].op = "create_space_run" -> <<body.startTime>>
          [] calls[c].op = "create_task_summary" -> <<body.start_time, body.end_time>>
          [] calls[c].op = "finish_space_run" -> <<body.endTime>>

\* The timestamps the caller of the operation in slot c passed in.
GivenTimestamps(c) ==
    LET input == calls[c].input
    IN  CASE calls[c].op = "create_space_run" -> <<input.payload.start_time>>
          [] calls[c].op = "create_task_summary" ->
                <<input.task.start_time, input.task.end_time>>
          [] calls[c].op = "finish_space_run" -> <<input.end_time>>

\* C16 as stated: in every payload sent the timestamp fields are >= 0.
C16_Original ==
    \A c \in DOMAIN calls :
        calls[c].sent # <<>> =>
            \A i \in DOMAIN SentTimestamps(c) : SentTimestamps(c)[i] >= 0

\* C16 (amended): the timestamp fields of every payload sent are the caller's
\* values unchanged, neither checked nor adjusted, so they are non-negative
\* exactly when the caller's values are.
C16_TimestampsPassedThrough ==
    \A c \in DOMAIN calls :
        calls[c].sent # <<>> => SentTimestamps(c) = GivenTimestamps(c)

\* finish_space_run called with a negative end_time has sent it as endTime.
C16_Witness ==
    \E c \in DOMAIN calls :
        /\ calls[c].op = "finish_space_run"
        /\ calls[c].input.end_time < 0
        /\ calls[c].sent # <<>>
        /\ calls[c].sent[1].body[1].endTime = calls[c].input.end_time


\* ---------------------------------------------------------------- C17

\* The builder operation op would have been given by create_request_builder in
\* the place of the operation in slot c: same client, auth context, verdict and
\* environment.
AssembledFor(op, c) ==
    create_request_builder_finish(client, OpUrl(op, calls[c].space_id, calls[c].run_id),
        calls[c].api_auth, OpMethod(op),
        IF HasVerdict(c) THEN Some(Verdict(c)) ELSE NoneOpt, ci_vendor)

ProbeFor(op, c) ==
    create_request_builder_probe(client, OpUrl(op, calls[c].space_id, calls[c].run_id),
                                 calls[c].api_auth, OpMethod(op))

\* Two results classify the transport's answer alike: both succeed, or both fail
\* with the same error.
SameClassification(r1, r2) ==
    /\ r1.ok <=> r2.ok
    /\ ~r1.ok => r1.val = r2.val

\* C17: given the same client configuration, auth context, verdict and transport
\* result, the three operations make the same preflight, Authorization,
\* team-parameter and CI-header decisions and classify the answer alike; they
\* differ in method, path and body, and in create_space_run awaiting the body of
\* an accepted response and failing on one it cannot read or deserialize.
C17_UniformAcrossOperations ==
    \A c \in DOMAIN calls : \A op \in Ops :
        calls[c].pc # "idle" =>
            /\ (ProbeFor(op, c) # NoneOpt) <=> (calls[c].probes # <<>>)
            /\ calls[c].probes # <<>> =>
                  /\ ProbeFor(op, c)[1].token = calls[c].probes[1].token
                  /\ ProbeFor(op, c)[1].headers = calls[c].probes[1].headers
            /\ calls[c].sent # <<>> =>
                  /\ AssembledFor(op, c).headers = calls[c].sent[1].headers
                  /\ AssembledFor(op, c).query = calls[c].sent[1].query
                  /\ calls[c].sent[1].body # NoneOpt
                  /\ calls[c].attempts >= 1
            /\ calls[c].pc = "decoding" => calls[c].op = "create_space_run"
            /\ (Done(c) /\ calls[c].transport # NoneOpt) =>
                  LET mine == calls[c].result[1]
                      other == OpResult(op, calls[c].transport[1])
                  IN  \/ SameClassification(mine, other)
                      \/ /\ calls[c].op = "create_space_run"
                         /\ mine \in {Err(DecodeError), Err(BodyError)}
                         /\ other.ok \/ other = Err(DecodeError)
                      \/ /\ op = "create_space_run"
                         /\ other = Err(DecodeError) /\ mine.ok

\* finish_space_run, after a probe, was answered 404 and failed with that status,
\* as the other two operations would have.
C17_Witness ==
    \E c \in DOMAIN calls :
        /\ Done(c) /\ calls[c].op = "finish_space_run"
        /\ HasVerdict(c) /\ HasResponse(c)
        /\ FinalResponse(c).status = 404
        /\ calls[c].result[1] = Err(StatusError(404))
        /\ create_space_run_result(calls[c].transport[1]) = Err(StatusError(404))
        /\ create_task_summary_result(calls[c].transport[1]) = Err(StatusError(404))

\* create_space_run got a 200 whose body is no SpaceRun: it fails on the body
\* where the other two operations succeed.
C17_WitnessDecode ==
    \E c \in DOMAIN calls :
        /\ Done(c) /\ calls[c].op = "create_space_run"
        /\ HasResponse(c) /\ FinalResponse(c).status = 200
        /\ calls[c].result[1] = Err(DecodeError)
        /\ finish_space_run_result(calls[c].transport[1]).ok


\* ---------------------------------------------------------------- C18

InFlight(c) == calls[c].pc \in {"preflight", "sending", "decoding"}

FailureKinds == {"Preflight", "Transport", "Status", "Body", "Decode"}

\* The operation in slot c has ended in exactly one of success or a classified
\* failure.
EndedInOneOutcome(c) ==
    /\ calls[c].result # NoneOpt
    /\ LET r == calls[c].result[1]
       IN  \/ r.ok
           \/ ~r.ok /\ r.val.kind \in FailureKinds

\* Once an operation has ended no probe, request or transport attempt is added
\* on its behalf.
NoRequestAfterEnd ==
    \A c \in DOMAIN calls :
        Done(c) =>
            /\ Len(calls'[c].probes) <= Len(calls[c].probes)
            /\ Len(calls'[c].sent) <= Len(calls[c].sent)
            /\ calls'[c].attempts <= calls[c].attempts

\* An operation has its result exactly when it has ended, and then it is one
\* outcome.
OneOutcomeAtTheEnd ==
    \A c \in Slots : /\ Done(c) => EndedInOneOutcome(c)
                     /\ ~Done(c) => calls[c].result = NoneOpt

\* The read of a response body does not stay pending for ever.
BodyReadReturns == \A c \in Slots : []<>(calls[c].pc # "decoding")

\* C18 as stated: provided the probe returns and the transport returns its final
\* outcome after its bounded attempts, every operation eventually ends, in
\* exactly one of success or a classified failure, and issues no request
\* afterwards.
C18_Original ==
    /\ \A c \in Slots : InFlight(c) ~> Done(c)
    /\ []OneOutcomeAtTheEnd
    /\ [][NoRequestAfterEnd]_vars

\* C18 amended: provided the probe returns and the transport returns its final
\* outcome after its bounded attempts, create_task_summary and finish_space_run
\* eventually end, and so does create_space_run provided, in addition, that the
\* read of the accepted response's body returns; each ends in exactly one of
\* success or a classified failure (no result before the end) and issues no
\* request afterwards.
C18_EveryOperationTerminates ==
    /\ \A c \in Slots :
          (InFlight(c) /\ calls[c].op # "create_space_run") ~> Done(c)
    /\ \A c \in Slots :
          InFlight(c) ~> (Done(c) \/ calls[c].pc = "decoding")
    /\ BodyReadReturns => \A c \in Slots : InFlight(c) ~> Done(c)
    /\ []OneOutcomeAtTheEnd
    /\ [][NoRequestAfterEnd]_vars

\* create_space_run, after a probe and a transport that used every attempt, read
\* the body of its response and ended with the handle.
C18_Witness ==
    \E c \in Slots :
        /\ Done(c) /\ calls[c].op = "create_space_run"
        /\ calls[c].attempts = MaxAttempts
        /\ Len(calls[c].probes) = 1
        /\ BodyRead(c)
        /\ calls[c].result[1].ok

\* ---------------------------------------------------------------- C19

\* With preflight on, the operation in slot c has its request out only with its
\* own probe answered by a verdict, and the request follows that verdict.
RequestFollowsOwnVerdict(c) ==
    /\ calls[c].pc = "preflight" =>
          /\ calls[c].sent = <<>>
          /\ calls[c].attempts = 0
          /\ calls[c].preflight = NoneOpt
    /\ (calls[c].preflight # NoneOpt /\ ~calls[c].preflight[1].ok) => calls[c].sent = <<>>
    /\ calls[c].sent # <<>> =>
          /\ HasVerdict(c)
          /\ Len(calls[c].probes) = 1
          /\ calls[c].sent[1].url = Verdict(c).location
          /\ HasHeader(calls[c].sent[1], "Authorization")
                <=> Verdict(c).allow_authorization_header

\* The request is handed over in the very step in which the probe's verdict
\* arrives, never in another.
RequestSentOnVerdict ==
    \A c \in DOMAIN calls :
        (client.use_preflight /\ calls[c].sent = <<>> /\ calls'[c].sent # <<>>) =>
            /\ calls[c].pc = "preflight"
            /\ calls[c].probes # <<>>
            /\ calls'[c].preflight # NoneOpt /\ calls'[c].preflight[1].ok

\* C19: with preflight enabled, within one operation the real request is handed
\* to the transport only after that operation's probe has returned a successful
\* verdict, never before or along with the probe, and its URL and Authorization
\* decision are those of that verdict.
C19_RequestOnlyAfterOwnVerdict ==
    /\ [](client.use_preflight => \A c \in DOMAIN calls : RequestFollowsOwnVerdict(c))
    /\ [][RequestSentOnVerdict]_vars

\* A request is with the transport after its probe came back redirecting it and
\* allowing the Authorization header.
C19_Witness ==
    \E c \in DOMAIN calls :
        /\ client.use_preflight
        /\ calls[c].pc = "sending"
        /\ Len(calls[c].probes) = 1 /\ Len(calls[c].sent) = 1
        /\ Verdict(c).allow_authorization_header
        /\ Verdict(c).location # OriginalUrl(c)
        /\ calls[c].sent[1].url = Verdict(c).location
        /\ HasHeader(calls[c].sent[1], "Authorization")


\* ---------------------------------------------------------------- C20

OtherHeaders(rb) == SelectSeq(rb.headers, LAMBDA h : h[1] # "Authorization")

\* The builder the operation in slot c would have been given had its verdict
\* carried the opposite allow_authorization_header and nothing else differed.
AssembledFlipped(c) ==
    create_request_builder_finish(client,
        OpUrl(calls[c].op, calls[c].space_id, calls[c].run_id),
        calls[c].api_auth, OpMethod(calls[c].op),
        Some([Verdict(c) EXCEPT !.allow_authorization_header = ~@]), ci_vendor)

\* C20: the verdict's allow_authorization_header decides the presence of the
\* Authorization header and nothing else: the request sent and the one assembled
\* under the opposite flag have the same method, URL, Content-Type, team
\* parameters and CI header and differ in the Authorization header; a call denied
\* the header is sent all the same, with its team scoping, and ends as the
\* transport's answer says.
C20_FlagAffectsOnlyAuthorization ==
    \A c \in DOMAIN calls :
        (client.use_preflight /\ HasVerdict(c)) =>
            /\ Len(calls[c].sent) = 1
            /\ AssembledFlipped(c).method = calls[c].sent[1].method
            /\ AssembledFlipped(c).url = calls[c].sent[1].url
            /\ AssembledFlipped(c).query = calls[c].sent[1].query
            /\ OtherHeaders(AssembledFlipped(c)) = OtherHeaders(calls[c].sent[1])
            /\ HasHeader(AssembledFlipped(c), "Authorization")
                  <=> ~HasHeader(calls[c].sent[1], "Authorization")
            /\ ~Verdict(c).allow_authorization_header =>
                  /\ calls[c].api_auth.team_id # "" =>
                        QueryValues(calls[c].sent[1], "teamId") = {calls[c].api_auth.team_id}
                  /\ calls[c].api_auth.team_slug # NoneOpt =>
                        QueryValues(calls[c].sent[1], "slug") = {calls[c].api_auth.team_slug[1]}
                  /\ Done(c) =>
                        /\ calls[c].transport # NoneOpt
                        /\ calls[c].result = OwnResult(c)

\* A call denied the Authorization header went out without it, with its team id
\* and slug, and succeeded.
C20_Witness ==
    \E c \in DOMAIN calls :
        /\ client.use_preflight /\ HasVerdict(c)
        /\ ~Verdict(c).allow_authorization_header
        /\ Done(c) /\ calls[c].result[1].ok
        /\ ~HasHeader(calls[c].sent[1], "Authorization")
        /\ HasQuery(calls[c].sent[1], "teamId") /\ HasQuery(calls[c].sent[1], "slug")
        /\ HasHeader(AssembledFlipped(c), "Authorization")

====
